---- MODULE Spec2Model ----
(***************************************************************************)
(* Billiards core of src/game.cpp: Vector2, Table, the per-ball simulation *)
(* step and the Game controller (update / mouseButtonPressed /             *)
(* mouseButtonReleased / init / deinit).                                   *)
(*                                                                         *)
(* Numbers.  The program computes in IEEE float.  Here every float is a    *)
(* fixed-point integer with F units per 1.0 (0.3f is 30, 15.f is 1500),    *)
(* every product and quotient is rounded to the nearest unit, and the one  *)
(* non-finite value the program can produce from finite inputs, the NaN of *)
(* 0/0, is the distinguished value NaN: it propagates through arithmetic   *)
(* and makes every ordered comparison false, as in IEEE 754.               *)
(***************************************************************************)
EXTENDS Integers, Sequences, FiniteSets, TLC

VARIABLES
    table,               \* Game::table
    scene,               \* the presentation layer's ledger
    aborted,             \* an assert of Table::init has failed
    isChargingShot,
    shotChargeProgress,
    isBallsMoving,
    lastCall,            \* ghost: the entry point called last
    cueReset,            \* ghost: that call reset the table (cue ball pocketed)
    nShots,              \* ghost: pointer-ups that acted
    heldTime,            \* ghost: dt summed since the charge began
    intAbs               \* the build resolves abs( float ) to the int overload

vars == <<table, scene, aborted, isChargingShot, shotChargeProgress,
          isBallsMoving, lastCall, cueReset, nShots, heldTime, intAbs>>

\* ------------------------------------------------------------------------
\* Sequential composition
\* ------------------------------------------------------------------------

\* The value a local variable holds: The({ rest : x \in {e} }) computes e
\* once, where the declaration stands, and then rest with x holding it.
The(S) == CHOOSE x \in S : TRUE

\* ------------------------------------------------------------------------
\* Fixed-point arithmetic with NaN
\* ------------------------------------------------------------------------

F == 100

NaN == -1000000000

AbsI(n) == IF n < 0 THEN -n ELSE n

\* integer quotient rounded to the nearest integer, symmetric in sign (d > 0)
RDiv(n, d) == IF n >= 0 THEN (2 * n + d) \div (2 * d)
                        ELSE -((2 * (-n) + d) \div (2 * d))

Add(a, b) == IF a = NaN THEN NaN ELSE IF b = NaN THEN NaN ELSE a + b

Sub(a, b) == IF a = NaN THEN NaN ELSE IF b = NaN THEN NaN ELSE a - b

Mul(a, b) == IF a = NaN THEN NaN ELSE IF b = NaN THEN NaN ELSE RDiv(a * b, F)

\* a / b.  The only divisions of the program divide a vector's component by
\* the vector's own length, or by the constant chargeTime, so a zero divisor
\* always meets a zero dividend: 0/0 = NaN.
Div(a, b) == IF a = NaN THEN NaN ELSE IF b = NaN \/ b = 0 THEN NaN
             ELSE IF b > 0 THEN RDiv(a * F, b) ELSE RDiv(-(a * F), -b)

Neg(a) == IF a = NaN THEN NaN ELSE -a

\* abs( a ), unqualified, on a float.  Which overload the call reaches is the
\* build's: where <cmath> declares abs( float ) in the global namespace it is
\* the absolute value; where only ::abs( int ) is visible, a is truncated to
\* an int first.  No abs call of the model's runs is given a NaN.
FAbs(a) == IF a = NaN THEN NaN
           ELSE IF intAbs THEN F * (AbsI(a) \div F) ELSE AbsI(a)

Lt(a, b) == a # NaN /\ b # NaN /\ a < b

Le(a, b) == a # NaN /\ b # NaN /\ a <= b

Gt(a, b) == a # NaN /\ b # NaN /\ a > b

\* std::max(a, b) is (a < b) ? b : a and std::min(a, b) is (b < a) ? b : a
StdMax(a, b) == IF Lt(a, b) THEN b ELSE a

StdMin(a, b) == IF Lt(b, a) THEN b ELSE a

\* a power of two at or above the square root of n (0 < n < 2^31)
SqrtGuess(n) ==
    CASE n < 4 -> 2
      [] n < 16 -> 4
      [] n < 64 -> 8
      [] n < 256 -> 16
      [] n < 1024 -> 32
      [] n < 4096 -> 64
      [] n < 16384 -> 128
      [] n < 65536 -> 256
      [] n < 262144 -> 512
      [] n < 1048576 -> 1024
      [] n < 4194304 -> 2048
      [] n < 16777216 -> 4096
      [] n < 67108864 -> 8192
      [] n < 268435456 -> 16384
      [] n < 1073741824 -> 32768
      [] OTHER -> 65536

\* one step of Newton's iteration for the square root of n
SqrtStep(n, x) == (x + n \div x) \div 2

\* largest r with r * r <= n: five Newton steps from SqrtGuess(n) reach r or
\* r + 1 for every n below 2^31
FloorSqrt(n) ==
    IF n = 0 THEN 0
    ELSE The({IF x * x > n THEN x - 1 ELSE x :
              x \in {SqrtStep(n, SqrtStep(n, SqrtStep(n, SqrtStep(n,
                         SqrtStep(n, SqrtGuess(n))))))}})

\* square root of a natural number, rounded to the nearest integer
SqrtN(n) == The({IF n - r * r > r THEN r + 1 ELSE r : r \in {FloorSqrt(n)}})

\* ------------------------------------------------------------------------
\* Vector2
\* ------------------------------------------------------------------------

Vec(vx, vy) == [x |-> vx, y |-> vy]

\* pow(x * x + y * y, 0.5)
Length(v) == IF v.x = NaN \/ v.y = NaN THEN NaN
             ELSE The({SqrtN(n) : n \in {v.x * v.x + v.y * v.y}})

\* float len = this->length(); x /= len; y /= len
Normalize(v) == The({Vec(Div(v.x, len), Div(v.y, len)) : len \in {Length(v)}})

InvertY(v) == Vec(v.x, Neg(v.y))

InvertX(v) == Vec(Neg(v.x), v.y)

\* ------------------------------------------------------------------------
\* Params
\* ------------------------------------------------------------------------

width == 1500

height == 800

pocketRadius == 50

radius == 30

chargeTime == 100

NumPockets == 6

NumBalls == 7

PocketIdx == 0 .. NumPockets - 1

BallIdx == 0 .. NumBalls - 1

pocketsPositions ==
    [i \in PocketIdx |->
        CASE i = 0 -> Vec(Mul(-50, width), Mul(-50, height))
          [] i = 1 -> Vec(0, Mul(-50, height))
          [] i = 2 -> Vec(Mul(50, width), Mul(-50, height))
          [] i = 3 -> Vec(Mul(-50, width), Mul(50, height))
          [] i = 4 -> Vec(0, Mul(50, height))
          [] i = 5 -> Vec(Mul(50, width), Mul(50, height))]

ballsPositions ==
    [i \in BallIdx |->
        CASE i = 0 -> Vec(Mul(-30, width), 0)
          [] i = 1 -> Vec(Mul(20, width), 0)
          [] i = 2 -> Vec(Mul(25, width), Mul(5, height))
          [] i = 3 -> Vec(Mul(25, width), Mul(-5, height))
          [] i = 4 -> Vec(Mul(30, width), Mul(10, height))
          [] i = 5 -> Vec(Mul(30, width), 0)
          [] i = 6 -> Vec(Mul(30, width), Mul(-10, height))]

\* position a pocketed ball is moved to: x = 2 * width, y = x
Sentinel == Vec(2 * width, 2 * width)

\* ------------------------------------------------------------------------
\* Scene: the presentation layer, as a ledger of the calls the core makes.
\* A mesh handle is a number in Handles; Null is nullptr.  live holds the
\* handles created and not yet destroyed; the three flags record a
\* destroyMesh(nullptr), a destroyMesh of a handle that is not live and a
\* placeMesh(nullptr).
\* ------------------------------------------------------------------------

Null == 0

Handles == 1 .. NumPockets + NumBalls

NewScene == [live |-> {}, nullDestroyed |-> FALSE, staleDestroyed |-> FALSE,
             nullPlaced |-> FALSE]

\* the handle a create call returns: the lowest one not in use
FreshHandle(s) == CHOOSE h \in Handles : h \notin s.live /\ \A k \in 1 .. h - 1 : k \in s.live

CreateMesh(s) == [s EXCEPT !.live = @ \cup {FreshHandle(s)}]

DestroyMesh(s, h) ==
    IF h = Null THEN [s EXCEPT !.nullDestroyed = TRUE]
    ELSE IF h \notin s.live THEN [s EXCEPT !.staleDestroyed = TRUE]
    ELSE [s EXCEPT !.live = @ \ {h}]

PlaceMesh(s, h) == IF h = Null THEN [s EXCEPT !.nullPlaced = TRUE] ELSE s

\* ------------------------------------------------------------------------
\* Table.  A world w is the Table's fields, the scene, the flag that an
\* assert has failed (the process is gone) and the flag that the call in
\* progress has taken the deinit / init branch of moveBall.
\* ------------------------------------------------------------------------

\* Table's default member initialisers, and the arrays deinit assigns {}
EmptyTable ==
    [ballsCurrentPositions |-> [i \in BallIdx |-> Vec(0, 0)],
     speedDirection        |-> [i \in BallIdx |-> Vec(0, 0)],
     speedModulus          |-> [i \in BallIdx |-> 0],
     isPocketed            |-> [i \in BallIdx |-> FALSE],
     balls                 |-> [i \in BallIdx |-> Null],
     pockets               |-> [i \in PocketIdx |-> Null]]

\* body of the first loop of Table::init
InitPocket(w, i) ==
    IF w.aborted THEN w
    ELSE IF w.table.pockets[i] # Null THEN [w EXCEPT !.aborted = TRUE]
    ELSE LET h == FreshHandle(w.scene)
         IN  [w EXCEPT !.table.pockets[i] = h,
                       !.scene = PlaceMesh(CreateMesh(w.scene), h)]

\* body of the second loop of Table::init
InitBall(w, i) ==
    IF w.aborted THEN w
    ELSE IF w.table.balls[i] # Null THEN [w EXCEPT !.aborted = TRUE]
    ELSE LET h == FreshHandle(w.scene)
         IN  [w EXCEPT !.table.balls[i] = h,
                       !.scene = PlaceMesh(CreateMesh(w.scene), h),
                       !.table.speedDirection[i] = Vec(0, 0),
                       !.table.speedModulus[i] = 0]

RECURSIVE InitPockets(_, _)
\* for ( int i = 0; i < 6; i++ ) of Table::init, from index i on
InitPockets(w, i) ==
    The({IF i = NumPockets THEN v ELSE InitPockets(InitPocket(v, i), i + 1) : v \in {w}})

RECURSIVE InitBalls(_, _)
\* for ( int i = 0; i < 7; i++ ) of Table::init, from index i on
InitBalls(w, i) ==
    The({IF i = NumBalls THEN v ELSE InitBalls(InitBall(v, i), i + 1) : v \in {w}})

TableInit(w) ==
    InitBalls(InitPockets([w EXCEPT !.table.ballsCurrentPositions = ballsPositions,
                                    !.table.isPocketed = [i \in BallIdx |-> FALSE]],
                          0), 0)

\* for ( mesh : pockets ) destroyMesh( mesh )
DestroyPocket(w, i) == [w EXCEPT !.scene = DestroyMesh(w.scene, w.table.pockets[i])]

\* for ( mesh : balls ) if ( mesh ) destroyMesh( mesh )
DestroyBall(w, i) ==
    IF w.table.balls[i] # Null
    THEN [w EXCEPT !.scene = DestroyMesh(w.scene, w.table.balls[i])]
    ELSE w

RECURSIVE DestroyPockets(_, _)
\* the pockets loop of Table::deinit, from index i on
DestroyPockets(w, i) ==
    The({IF i = NumPockets THEN v ELSE DestroyPockets(DestroyPocket(v, i), i + 1) : v \in {w}})

RECURSIVE DestroyBalls(_, _)
\* the balls loop of Table::deinit, from index i on
DestroyBalls(w, i) ==
    The({IF i = NumBalls THEN v ELSE DestroyBalls(DestroyBall(v, i), i + 1) : v \in {w}})

TableDeinit(w) ==
    [DestroyBalls(DestroyPockets(w, 0), 0) EXCEPT !.table = EmptyTable]

RECURSIVE SumFrom(_, _, _)
\* for ( auto v : speedModulus ) sum += v, from index i on
SumFrom(t, i, sum) ==
    The({IF i = NumBalls THEN v ELSE SumFrom(t, i + 1, Add(v, t.speedModulus[i])) : v \in {sum}})

\* Table::speedSum
SpeedSum(t) == SumFrom(t, 0, 0)

\* ------------------------------------------------------------------------
\* Game: the simulation step
\* ------------------------------------------------------------------------

GameInit(w) == TableInit(w)

GameDeinit(w) == TableDeinit(w)

IsInPocket(t, ballIdx) ==
    \E i \in PocketIdx :
        Le(Length(Vec(Sub(pocketsPositions[i].x, t.ballsCurrentPositions[ballIdx].x),
                      Sub(pocketsPositions[i].y, t.ballsCurrentPositions[ballIdx].y))),
           pocketRadius)

\* speedModulus -= 0.15f * speedModulus * ( 1.f + a )
BorderLoss(speed, a) == Sub(speed, Mul(Mul(15, speed), Add(100, a)))

MinY == Add(Mul(-50, height), radius)

MaxY == Sub(Mul(50, height), radius)

MinX == Add(Mul(-50, width), radius)

MaxX == Sub(Mul(50, width), radius)

\* one ball's state as the four references checkBorders, checkBallCollision
\* and moveBall bind: x, y, speedDirection, speedModulus
BallRef(t, i) == [x |-> t.ballsCurrentPositions[i].x,
                  y |-> t.ballsCurrentPositions[i].y,
                  d |-> t.speedDirection[i],
                  m |-> t.speedModulus[i]]

StoreBall(t, i, b) == [t EXCEPT !.ballsCurrentPositions[i] = Vec(b.x, b.y),
                                !.speedDirection[i] = b.d,
                                !.speedModulus[i] = b.m]

\* if ( y < -0.5f * height + radius ) { ... }
BounceMinY(b0) ==
    The({IF Lt(b.y, MinY)
         THEN [b EXCEPT !.y = MinY,
                        !.m = BorderLoss(b.m, FAbs(b.d.y)),
                        !.d = InvertY(b.d)]
         ELSE b : b \in {b0}})

\* if ( y > 0.5f * height - radius ) { ... }
BounceMaxY(b0) ==
    The({IF Gt(b.y, MaxY)
         THEN [b EXCEPT !.y = MaxY,
                        !.m = BorderLoss(b.m, b.d.y),
                        !.d = InvertY(b.d)]
         ELSE b : b \in {b0}})

\* if ( x < -0.5f * width + radius ) { ... }
BounceMinX(b0) ==
    The({IF Lt(b.x, MinX)
         THEN [b EXCEPT !.x = MinX,
                        !.m = BorderLoss(b.m, FAbs(b.d.x)),
                        !.d = InvertX(b.d)]
         ELSE b : b \in {b0}})

\* if ( x > 0.5f * width - radius ) { ... }
BounceMaxX(b0) ==
    The({IF Gt(b.x, MaxX)
         THEN [b EXCEPT !.x = MaxX,
                        !.m = BorderLoss(b.m, b.d.x),
                        !.d = InvertX(b.d)]
         ELSE b : b \in {b0}})

CheckBorders(t, ballIdx) ==
    The({StoreBall(t, ballIdx, b) :
         b \in {BounceMaxX(BounceMinX(BounceMaxY(BounceMinY(BallRef(t, ballIdx)))))}})

\* lines 279-281: the ball stepped (me), the other ball, distance and len
Contact(me, other) ==
    The({[me |-> me, other |-> other, distance |-> d, len |-> Length(d)] :
         d \in {Vec(Sub(other.x, me.x), Sub(other.y, me.y))}})

\* lines 284-298: s, c, the normalised distance n, vn1, vn2, vt1, vt2
Components(k) ==
    The({[s |-> s, c |-> c, n |-> n,
          vn1 |-> Add(Mul(Mul(k.me.d.x, k.me.m), s), Mul(Mul(k.me.d.y, k.me.m), c)),
          vn2 |-> Add(Mul(Mul(k.other.d.x, k.other.m), s),
                      Mul(Mul(k.other.d.y, k.other.m), c)),
          vt1 |-> Add(Mul(Mul(Neg(k.other.d.x), k.other.m), c),
                      Mul(Mul(k.other.d.y, k.other.m), s)),
          vt2 |-> Add(Mul(Mul(Neg(k.me.d.x), k.me.m), c), Mul(Mul(k.me.d.y, k.me.m), s))] :
         s \in {Div(k.distance.x, k.len)},
         c \in {Div(k.distance.y, k.len)},
         n \in {Normalize(k.distance)}})

\* lines 300-303: the new speedDirection of the ball stepped (d1) and of the
\* other ball (d2), before they are normalised
Directions(q0) ==
    The({[n  |-> q.n,
          d1 |-> Vec(Add(Mul(85, Sub(Mul(q.vn2, q.s), Mul(q.vt2, q.c))),
                         Mul(15, Sub(Mul(q.vn1, q.s), Mul(q.vt1, q.c)))),
                     Add(Mul(85, Add(Mul(q.vn2, q.c), Mul(q.vt2, q.s))),
                         Mul(15, Add(Mul(q.vn1, q.c), Mul(q.vt1, q.s))))),
          d2 |-> Vec(Add(Mul(85, Sub(Mul(q.vn1, q.s), Mul(q.vt1, q.c))),
                         Mul(15, Sub(Mul(q.vn2, q.s), Mul(q.vt2, q.c)))),
                     Add(Mul(85, Add(Mul(q.vn1, q.c), Mul(q.vt1, q.s))),
                         Mul(15, Add(Mul(q.vn2, q.c), Mul(q.vt2, q.s)))))] :
         q \in {q0}})

\* lines 284-309: the body of if ( len < 2 * radius )
Bounce(t, ballIdx, i, k) ==
    The({[t EXCEPT !.ballsCurrentPositions[ballIdx] =
                       Vec(Sub(k.me.x, Mul(v.n.x, Sub(2 * radius, k.len))),
                           Sub(k.me.y, Mul(v.n.y, Sub(2 * radius, k.len)))),
                   !.speedDirection[ballIdx] = Normalize(v.d1),
                   !.speedModulus[ballIdx] = Mul(95, Length(v.d1)),
                   !.speedDirection[i] = Normalize(v.d2),
                   !.speedModulus[i] = Mul(95, Length(v.d2))] :
         v \in {Directions(Components(k))}})

\* the body of the loop of checkBallCollision for the other ball i
CollideWith(t, ballIdx, i) ==
    The({IF Lt(k.len, 2 * radius) THEN Bounce(t, ballIdx, i, k) ELSE t :
         k \in {Contact(BallRef(t, ballIdx), BallRef(t, i))}})

RECURSIVE CollisionLoop(_, _, _)
\* for ( int i = 0; i < 7; i++ ) { if ( i == ballIdx ) continue; ... }, from
\* index i on
CollisionLoop(t, ballIdx, i) ==
    The({IF i = NumBalls THEN v
         ELSE CollisionLoop(IF i = ballIdx THEN v ELSE CollideWith(v, ballIdx, i),
                            ballIdx, i + 1) :
         v \in {t}})

CheckBallCollision(t, ballIdx) == CollisionLoop(t, ballIdx, 0)

\* friction per second: 0.05f * Params::Table::width
Friction(dt) == Mul(Mul(5, width), dt)

\* lines 339-348 of moveBall: borders, collisions, integration, friction
Integrate(w, ballIdx, dt) ==
    The({LET b == BallRef(t1, ballIdx)
         IN  [w EXCEPT !.table =
                           [t1 EXCEPT !.ballsCurrentPositions[ballIdx] =
                                          Vec(Add(b.x, Mul(Mul(b.d.x, b.m), dt)),
                                              Add(b.y, Mul(Mul(b.d.y, b.m), dt))),
                                      !.speedModulus[ballIdx] =
                                          StdMax(Sub(b.m, Friction(dt)), 0)],
                       !.scene = PlaceMesh(w.scene, w.table.balls[ballIdx])] :
         t1 \in {CheckBallCollision(CheckBorders(w.table, ballIdx), ballIdx)}})

\* mutant: a pocketed ball is not flagged
PocketBallNoFlag(w, ballIdx) ==
    [w EXCEPT !.scene = DestroyMesh(w.scene, w.table.balls[ballIdx]),
              !.table.balls[ballIdx] = Null,
              !.table.ballsCurrentPositions[ballIdx] = Sentinel,
              !.table.speedModulus[ballIdx] = 0]

\* mutant: a pocketed ball keeps its speed
PocketBallMoving(w, ballIdx) ==
    [w EXCEPT !.scene = DestroyMesh(w.scene, w.table.balls[ballIdx]),
              !.table.balls[ballIdx] = Null,
              !.table.ballsCurrentPositions[ballIdx] = Sentinel,
              !.table.isPocketed[ballIdx] = TRUE]

\* lines 330-336 of moveBall: a ball other than the cue ball leaves the table
PocketBall(w, ballIdx) ==
    [w EXCEPT !.scene = DestroyMesh(w.scene, w.table.balls[ballIdx]),
              !.table.balls[ballIdx] = Null,
              !.table.ballsCurrentPositions[ballIdx] = Sentinel,
              !.table.speedModulus[ballIdx] = 0,
              !.table.isPocketed[ballIdx] = TRUE]

\* mutant: the reset calls init without deinit
ResetTableNoDeinit(w) == [GameInit(w) EXCEPT !.reset = TRUE]

\* lines 324-329 of moveBall: the cue ball is in a pocket
ResetTable(w) == [GameInit(GameDeinit(w)) EXCEPT !.reset = TRUE]

\* mutant: the cue ball is removed like any other ball
MoveBallNoReset(w, ballIdx, dt) ==
    IF IsInPocket(w.table, ballIdx) THEN PocketBall(w, ballIdx)
                                    ELSE Integrate(w, ballIdx, dt)

MoveBall(w, ballIdx, dt) ==
    IF IsInPocket(w.table, ballIdx)
    THEN IF ballIdx = 0 THEN ResetTable(w)
                        ELSE PocketBall(w, ballIdx)
    ELSE Integrate(w, ballIdx, dt)

RECURSIVE MoveAllFrom(_, _, _)
\* mutant: pocketed balls are stepped too
MoveAllFrom(w, i, dt) ==
    The({IF i = NumBalls THEN v ELSE MoveAllFrom(MoveBall(v, i, dt), i + 1, dt) : v \in {w}})

MoveLoopAll(w, dt) == MoveAllFrom(w, 0, dt)

RECURSIVE MoveFrom(_, _, _)
\* for ( int i = 0; i < 7; i++ ) if ( !table.isPocketed[ i ] ) moveBall( i, dt ),
\* from index i on
MoveFrom(w, i, dt) ==
    The({IF i = NumBalls THEN v
         ELSE MoveFrom(IF ~v.table.isPocketed[i] THEN MoveBall(v, i, dt) ELSE v,
                       i + 1, dt) :
         v \in {w}})

MoveLoop(w, dt) == MoveFrom(w, 0, dt)

\* ------------------------------------------------------------------------
\* Game: the controller.  Bounds of the environment.
\* ------------------------------------------------------------------------

\* shots (pointer-ups that act) per run
MaxShots == 2

\* the frame time the external loop delivers, 0.5 s
DtFrame == F \div 2

\* pointer positions: ball 1's start (due east of the cue ball's start), the
\* cue ball's own start, the top-middle pocket, and two points below and to
\* either side of the cue ball's start: a half-charge shot at the first of
\* them comes to rest within pocketRadius of the top-middle pocket, and a
\* half-charge shot at the second followed by a full-charge shot at the cue
\* ball's start brings the cue ball and ball 4 into pockets in one frame
AimSet == {Vec(300, 0), Vec(-450, 0), Vec(0, 400), Vec(-550, -100), Vec(-406, -100)}

\* ghost: the dt summed since the pointer-down that began the charge saturates here
HeldCap == 200

World == [table |-> table, scene |-> scene, aborted |-> aborted, reset |-> FALSE]

\* the state after the first Game::init
Init ==
    LET w == GameInit([table |-> EmptyTable, scene |-> NewScene,
                       aborted |-> FALSE, reset |-> FALSE])
    IN  /\ table = w.table
        /\ scene = w.scene
        /\ aborted = w.aborted
        /\ isChargingShot = FALSE
        /\ shotChargeProgress = 0
        /\ isBallsMoving = FALSE
        /\ lastCall = "init"
        /\ cueReset = FALSE
        /\ nShots = 0
        /\ heldTime = 0
        /\ intAbs \in BOOLEAN

RECURSIVE MoveDownFrom(_, _, _)
\* mutant: the balls are stepped in the order 6..0
MoveDownFrom(w, i, dt) ==
    The({IF i < 0 THEN v
         ELSE MoveDownFrom(IF ~v.table.isPocketed[i] THEN MoveBall(v, i, dt) ELSE v,
                           i - 1, dt) :
         v \in {w}})

StepBallsReversed(w, dt) == MoveDownFrom(w, NumBalls - 1, dt)

\* the simulation part of update: lines 357-366
StepBalls(w, dt) == MoveLoop(w, dt)

\* mutant: only the cue ball's speed is tested
StillMovingCueOnly(w) == w.table.speedModulus[0] # 0

\* isBallsMoving after the speed-sum test of line 364
StillMoving(w) == SpeedSum(w.table) # 0

\* mutant: the charge is not clamped
ChargedUnclamped(progress, dt) == Add(progress, Div(dt, chargeTime))

\* shotChargeProgress after line 354
Charged(progress, dt) == StdMin(Add(progress, Div(dt, chargeTime)), F)

Update(dt) ==
    /\ ~aborted
    /\ lastCall' = "update"
    /\ shotChargeProgress' = IF isChargingShot THEN Charged(shotChargeProgress, dt)
                                               ELSE shotChargeProgress
    /\ heldTime' = IF isChargingShot
                   THEN (IF heldTime + dt > HeldCap THEN HeldCap ELSE heldTime + dt)
                   ELSE heldTime
    /\ IF isBallsMoving
       THEN \E w \in {StepBalls(World, dt)} :
                /\ table' = w.table
                /\ scene' = w.scene
                /\ aborted' = w.aborted
                /\ cueReset' = w.reset
                /\ isBallsMoving' = StillMoving(w)
       ELSE /\ cueReset' = FALSE
            /\ UNCHANGED <<table, scene, aborted, isBallsMoving>>
    /\ UNCHANGED <<isChargingShot, nShots, intAbs>>

\* mutant: a pointer-down charges whatever the balls do
MouseButtonPressedAlways ==
    /\ ~aborted
    /\ lastCall' = "mouseButtonPressed"
    /\ cueReset' = FALSE
    /\ isChargingShot' = TRUE
    /\ heldTime' = IF isChargingShot THEN heldTime ELSE 0
    /\ UNCHANGED <<table, scene, aborted, shotChargeProgress, isBallsMoving, nShots,
                   intAbs>>

MouseButtonPressed ==
    /\ ~aborted
    /\ lastCall' = "mouseButtonPressed"
    /\ cueReset' = FALSE
    /\ IF ~isBallsMoving
       THEN /\ isChargingShot' = TRUE
            /\ heldTime' = IF isChargingShot THEN heldTime ELSE 0
       ELSE UNCHANGED <<isChargingShot, heldTime>>
    /\ UNCHANGED <<table, scene, aborted, shotChargeProgress, isBallsMoving, nShots,
                   intAbs>>

\* table after lines 379-382
Shoot(t, progress, x, y) ==
    [t EXCEPT !.speedDirection[0] =
                  Normalize(Vec(Sub(x, t.ballsCurrentPositions[0].x),
                                Sub(y, t.ballsCurrentPositions[0].y))),
              !.speedModulus[0] = Mul(progress, width)]

\* mutant: a pointer-up shoots whatever the balls do
MouseButtonReleasedAlways(x, y) ==
    /\ ~aborted
    /\ lastCall' = "mouseButtonReleased"
    /\ cueReset' = FALSE
    /\ nShots < MaxShots
    /\ table' = Shoot(table, shotChargeProgress, x, y)
    /\ isBallsMoving' = TRUE
    /\ isChargingShot' = FALSE
    /\ shotChargeProgress' = 0
    /\ nShots' = nShots + 1
    /\ heldTime' = 0
    /\ UNCHANGED <<scene, aborted, intAbs>>

MouseButtonReleased(x, y) ==
    /\ ~aborted
    /\ lastCall' = "mouseButtonReleased"
    /\ cueReset' = FALSE
    /\ IF ~isBallsMoving
       THEN /\ nShots < MaxShots
            /\ table' = Shoot(table, shotChargeProgress, x, y)
            /\ isBallsMoving' = TRUE
            /\ isChargingShot' = FALSE
            /\ shotChargeProgress' = 0
            /\ nShots' = nShots + 1
            /\ heldTime' = 0
       ELSE UNCHANGED <<table, isBallsMoving, isChargingShot, shotChargeProgress,
                        nShots, heldTime>>
    /\ UNCHANGED <<scene, aborted, intAbs>>

\* mutant: init on a live table quietly rebuilds it
InitCallFresh ==
    /\ ~aborted
    /\ lastCall' = "init"
    /\ cueReset' = FALSE
    /\ \E w \in {GameInit(GameDeinit(World))} :
           /\ table' = w.table
           /\ scene' = w.scene
           /\ aborted' = w.aborted
    /\ UNCHANGED <<isChargingShot, shotChargeProgress, isBallsMoving, nShots, heldTime,
                   intAbs>>

\* Game::init called by the host
InitCall ==
    /\ ~aborted
    /\ lastCall' = "init"
    /\ cueReset' = FALSE
    /\ \E w \in {GameInit(World)} :
           /\ table' = w.table
           /\ scene' = w.scene
           /\ aborted' = w.aborted
    /\ UNCHANGED <<isChargingShot, shotChargeProgress, isBallsMoving, nShots, heldTime,
                   intAbs>>

\* Game::deinit called by the host
DeinitCall ==
    /\ ~aborted
    /\ lastCall' = "deinit"
    /\ cueReset' = FALSE
    /\ \E w \in {GameDeinit(World)} :
           /\ table' = w.table
           /\ scene' = w.scene
           /\ aborted' = w.aborted
    /\ UNCHANGED <<isChargingShot, shotChargeProgress, isBallsMoving, nShots, heldTime,
                   intAbs>>

Next ==
    \/ Update(DtFrame)
    \/ MouseButtonPressed
    \/ \E a \in AimSet : MouseButtonReleased(a.x, a.y)
    \/ InitCall
    \/ DeinitCall

Spec == Init /\ [][Next]_vars

\* Play without the host's lifecycle calls, the frame loop never stopping:
\* update keeps being called with the fixed frame time DtFrame, and the
\* pointer is left alone while the balls move.
PlayNext ==
    \/ Update(DtFrame)
    \/ ~isBallsMoving /\ MouseButtonPressed
    \/ ~isBallsMoving /\ \E a \in AimSet : MouseButtonReleased(a.x, a.y)

LiveSpec == Init /\ [][PlayNext]_vars /\ WF_vars(Update(DtFrame))

\* ------------------------------------------------------------------------
\* Properties
\* ------------------------------------------------------------------------

PointerCalls == {"mouseButtonPressed", "mouseButtonReleased"}

PlayCalls == PointerCalls \cup {"update"}

InBounds(p) == Le(MinX, p.x) /\ Le(p.x, MaxX) /\ Le(MinY, p.y) /\ Le(p.y, MaxY)

\* C1: isChargingShot and isBallsMoving are never both true, so exactly one
\* of charging, balls-moving and idle (neither flag) holds in every state.
C1_ExclusiveModes == ~(isChargingShot /\ isBallsMoving)

\* a pointer-down has just arrived while the balls were moving
C1_Witness == isBallsMoving /\ lastCall = "mouseButtonPressed"

\* C2: isBallsMoving rises only in a mouseButtonReleased call made while
\* isChargingShot is true, and a mouseButtonReleased call in Idle leaves the
\* controller Idle and the cue ball's direction and speed as they were.
C2_ShotOnlyFromCharging ==
    [][/\ (~isBallsMoving /\ isBallsMoving')
            => (isChargingShot /\ lastCall' = "mouseButtonReleased")
       /\ (~isBallsMoving /\ ~isChargingShot /\ lastCall' = "mouseButtonReleased")
            => /\ ~isBallsMoving' /\ ~isChargingShot'
               /\ table'.speedDirection[0] = table.speedDirection[0]
               /\ table'.speedModulus[0] = table.speedModulus[0]]_vars

\* C3: while isBallsMoving is true a pointer-down or pointer-up changes
\* neither the controller's flags and charge nor any ball's position,
\* direction, speed, pocketed flag or handle.
C3_MovingIgnoresPointer ==
    [][(isBallsMoving /\ lastCall' \in PointerCalls)
         => UNCHANGED <<table, isChargingShot, shotChargeProgress,
                        isBallsMoving>>]_vars

\* a pointer-up has just arrived while a ball other than the cue ball rolled
C3_Witness ==
    /\ isBallsMoving
    /\ lastCall = "mouseButtonReleased"
    /\ \E i \in BallIdx \ {0} : Gt(table.speedModulus[i], 0)

\* C4: an update made while the balls move and the cue ball is within
\* pocketRadius of a pocket leaves every ball at its starting position and
\* no ball pocketed.
C4_CueBallReset ==
    [][(isBallsMoving /\ IsInPocket(table, 0) /\ lastCall' = "update")
         => /\ table'.ballsCurrentPositions = ballsPositions
            /\ \A i \in BallIdx : ~table'.isPocketed[i]]_vars

\* the update just made took the deinit / init branch of moveBall
C4_Witness == lastCall = "update" /\ cueReset

C6_RestConvergence ==
    (isBallsMoving /\ SpeedSum(table) # NaN)
        ~> (~isBallsMoving /\ SpeedSum(table) = 0)

\* C7: unless an init was called on a table holding live handles, no handle
\* is destroyed twice, destroyMesh is never given a null handle, and after a
\* deinit no created handle is left.
C7_HandlePairing ==
    ~aborted => /\ ~scene.staleDestroyed
                /\ ~scene.nullDestroyed
                /\ lastCall = "deinit" => scene.live = {}

\* C8: after an update made while the balls move, every ball that is not
\* pocketed lies within the borders, a radius inside the table's edges.
C8_BorderContainment ==
    [][(isBallsMoving /\ lastCall' = "update")
         => \A i \in BallIdx :
               ~table'.isPocketed[i] => InBounds(table'.ballsCurrentPositions[i])]_vars

\* C9: isBallsMoving falls exactly in an update after whose steps
\* speedSum() is 0; in every other update and in every other call it stays
\* true.
C9_IdleOnlyOnZeroSpeedSum ==
    [][isBallsMoving
         => (~isBallsMoving' <=> (lastCall' = "update" /\ SpeedSum(table') = 0))]_vars

\* play has stopped after a shot that moved a ball off its starting position
C9_Witness ==
    /\ ~isBallsMoving
    /\ lastCall = "update"
    /\ nShots > 0
    /\ table.pockets[0] # Null
    /\ \E i \in BallIdx : ~table.isPocketed[i] /\ table.ballsCurrentPositions[i] # ballsPositions[i]

\* C10: shotChargeProgress stays within [0, 1], and while charging it is the
\* time held since the pointer-down over chargeTime, clamped at exactly 1.
C10_ShotChargeClamp ==
    /\ Le(0, shotChargeProgress)
    /\ Le(shotChargeProgress, F)
    /\ isChargingShot =>
          shotChargeProgress = IF heldTime >= chargeTime THEN F
                               ELSE Div(heldTime, chargeTime)

\* the pointer has been held longer than chargeTime
C10_Witness == isChargingShot /\ heldTime > chargeTime /\ shotChargeProgress = F


\* ball i is a ball other than the cue ball, still on the table and within
\* pocketRadius of a pocket, and the call being made is an update that steps
\* the balls
PocketDue(i) ==
    /\ i # 0
    /\ isBallsMoving
    /\ lastCall' = "update"
    /\ ~table.isPocketed[i]
    /\ IsInPocket(table, i)

\* the update has removed ball i: flag set, speed 0, at the off-table
\* position (so neither pushed by a collision nor integrated), its slot null
PocketedNow(i) ==
    /\ table'.isPocketed[i]
    /\ table'.speedModulus[i] = 0
    /\ table'.ballsCurrentPositions[i] = Sentinel
    /\ ~InBounds(table'.ballsCurrentPositions[i])
    /\ table'.balls[i] = Null

\* C11, as amended: an update made while the balls move removes every ball
\* other than the cue ball that is on the table and within pocketRadius of a
\* pocket, unless the cue ball too is within pocketRadius of a pocket when
\* the update begins.
C11_PocketingUnlessReset ==
    [][\A i \in BallIdx : (PocketDue(i) /\ ~IsInPocket(table, 0)) => PocketedNow(i)]_vars

\* C11, as stated: an update made while the balls move removes every ball
\* other than the cue ball that is on the table and within pocketRadius of a
\* pocket.
C11_PocketingRemovesBall ==
    [][\A i \in BallIdx : PocketDue(i) => PocketedNow(i)]_vars

\* an update of the first shot has removed a ball
C11_Witness ==
    /\ lastCall = "update"
    /\ ~cueReset
    /\ nShots = 1
    /\ \E i \in BallIdx \ {0} :
          /\ table.isPocketed[i]
          /\ table.balls[i] = Null
          /\ table.ballsCurrentPositions[i] = Sentinel
          /\ table.speedModulus[i] = 0

\* the call being made is an update that steps the balls and pockets none:
\* no ball is removed and the table is not reset
QuietUpdate ==
    /\ isBallsMoving
    /\ lastCall' = "update"
    /\ ~cueReset'
    /\ table'.isPocketed = table.isPocketed

\* C12: in every update made while the balls move, in which no ball is
\* pocketed and every speed is finite before and after, speedSum() after the
\* update is at most speedSum() before it.
C12_EnergyMonotone ==
    [][(QuietUpdate /\ SpeedSum(table) # NaN /\ SpeedSum(table') # NaN)
         => Le(SpeedSum(table'), SpeedSum(table))]_vars

\* d is a unit vector: finite, and of length 1 to within the rounding of its
\* two components
UnitLength(d) == Le(F - 1, Length(d)) /\ Le(Length(d), F + 1)

\* the unnormalised aim vector of lines 379-380 for the pointer position a
AimVector(t, a) == Vec(Sub(a.x, t.ballsCurrentPositions[0].x),
                       Sub(a.y, t.ballsCurrentPositions[0].y))

\* C13: a mouseButtonReleased( x, y ) made while charging sets the cue
\* ball's speed to the charge before the call times the table's width and
\* its direction to the unit vector from the cue ball towards ( x, y ), sets
\* isChargingShot false, shotChargeProgress 0 and isBallsMoving true, and
\* changes no position and no other ball's direction or speed.
C13_ReleaseSetsCueVelocity ==
    [][(isChargingShot /\ ~isBallsMoving /\ lastCall' = "mouseButtonReleased")
         => /\ table'.speedModulus[0] = Mul(shotChargeProgress, width)
            /\ \E a \in AimSet :
                  table'.speedDirection[0] = Normalize(AimVector(table, a))
            /\ UnitLength(table'.speedDirection[0])
            /\ ~isChargingShot' /\ shotChargeProgress' = 0 /\ isBallsMoving'
            /\ table'.ballsCurrentPositions = table.ballsCurrentPositions
            /\ \A i \in BallIdx \ {0} :
                  /\ table'.speedDirection[i] = table.speedDirection[i]
                  /\ table'.speedModulus[i] = table.speedModulus[i]]_vars

\* the handles the table's slots hold
SlotHandles(t) == ({t.pockets[i] : i \in PocketIdx} \cup {t.balls[i] : i \in BallIdx}) \ {Null}

\* C14: an init called on a table that holds a live pocket or ball handle
\* fails the assert and creates nothing; and in every step a handle that is
\* still live after the step is still in its slot, the live handles being
\* exactly the ones the slots hold.
C14_InitOnLiveTableAborts ==
    [][/\ (lastCall' = "init" /\ SlotHandles(table) # {})
            => /\ aborted'
               /\ scene'.live = scene.live
               /\ table'.pockets = table.pockets
               /\ table'.balls = table.balls
       /\ \A i \in PocketIdx :
             table.pockets[i] \in scene'.live => table'.pockets[i] = table.pockets[i]
       /\ \A i \in BallIdx :
             table.balls[i] \in scene'.live => table'.balls[i] = table.balls[i]
       /\ scene'.live = SlotHandles(table')]_vars

\* the host has called init on a table whose 13 handles are live
C14_Witness ==
    /\ aborted
    /\ lastCall = "init"
    /\ Cardinality(scene.live) = NumPockets + NumBalls

\* distance between the centres of balls i and j
Dist(t, i, j) == Length(Vec(Sub(t.ballsCurrentPositions[j].x, t.ballsCurrentPositions[i].x),
                            Sub(t.ballsCurrentPositions[j].y, t.ballsCurrentPositions[i].y)))

\* balls i and j are two balls on the table (created, not pocketed) whose
\* centres are less than 2 * radius apart
Overlapping(t, i, j) ==
    /\ i # j
    /\ t.balls[i] # Null /\ t.balls[j] # Null
    /\ ~t.isPocketed[i] /\ ~t.isPocketed[j]
    /\ Lt(Dist(t, i, j), 2 * radius)

\* C15: on every table the program reaches, for two overlapping balls on
\* the table that both have speed 0, one moveBall of either leaves their
\* centres at least 2 * radius apart (to within one unit of rounding).
C15_CollisionSeparation ==
    \A i, j \in BallIdx :
        (Overlapping(table, i, j) /\ table.speedModulus[i] = 0 /\ table.speedModulus[j] = 0)
            => Le(2 * radius - 1, Dist(MoveBall(World, i, DtFrame).table, i, j))


\* both components are numbers
Finite(d) == d.x # NaN /\ d.y # NaN

\* C16: in every state reached from init by update, pointer-down and
\* pointer-up calls, every ball's position, direction and speed is finite.
C16_NormalizeNeverOnZero ==
    \A i \in BallIdx :
        /\ Finite(table.ballsCurrentPositions[i])
        /\ Finite(table.speedDirection[i])
        /\ table.speedModulus[i] # NaN

\* ball i's turn in the loop of update: moveBall if its flag is false when
\* the turn comes, nothing otherwise
StepInTurn(w0, i) ==
    The({IF w.table.isPocketed[i] THEN w ELSE MoveBall(w, i, DtFrame) : w \in {w0}})

\* the seven turns, ball 0 first
StepsInOrder(w) ==
    StepInTurn(StepInTurn(StepInTurn(StepInTurn(StepInTurn(StepInTurn(StepInTurn(
        w, 0), 1), 2), 3), 4), 5), 6)

\* C17: an update made while isBallsMoving is false changes no ball's
\* position, direction, speed, pocketed flag or handle; an update made while
\* it is true leaves the table that one step of each ball whose flag is
\* false at its turn, taken in the order 0..6, leaves, a ball whose flag is
\* true at its turn not being stepped.
C17_StepOnlyWhileMoving ==
    [][lastCall' = "update"
         => IF isBallsMoving THEN table' = StepsInOrder(World).table
                             ELSE table' = table]_vars

\* an update of the second shot has stepped a rolling ball that comes after
\* a pocketed one
C17_Witness ==
    /\ lastCall = "update"
    /\ isBallsMoving
    /\ nShots = 2
    /\ \E i, j \in BallIdx :
          /\ i < j
          /\ table.isPocketed[i]
          /\ ~table.isPocketed[j]
          /\ Gt(table.speedModulus[j], 0)

\* C18: in every state with isBallsMoving false, no ball whose isPocketed
\* flag is false has its centre within pocketRadius of a pocket.
C18_NoBallLeftInPocket ==
    ~isBallsMoving => \A i \in BallIdx : ~table.isPocketed[i] => ~IsInPocket(table, i)

\* C19: an update made while the balls move and the cue ball is within
\* pocketRadius of a pocket takes the reset branch without failing init's
\* asserts, and ends with every ball on its starting position with speed 0,
\* direction (0, 0) and a handle, isBallsMoving false and isChargingShot
\* false.
C19_ResetEndsShot ==
    [][(isBallsMoving /\ lastCall' = "update" /\ IsInPocket(table, 0))
         => /\ cueReset'
            /\ ~aborted'
            /\ \A i \in BallIdx :
                  /\ table'.speedModulus[i] = 0
                  /\ table'.speedDirection[i] = Vec(0, 0)
                  /\ table'.ballsCurrentPositions[i] = ballsPositions[i]
                  /\ table'.balls[i] # Null
            /\ ~isBallsMoving'
            /\ ~isChargingShot']_vars

\* the update just made reset the table and stopped play
C19_Witness ==
    /\ cueReset
    /\ lastCall = "update"
    /\ nShots > 0
    /\ ~aborted
    /\ ~isBallsMoving
    /\ SpeedSum(table) = 0

\* the table is between an init and the next deinit
Initialised(t) == \A i \in PocketIdx : t.pockets[i] # Null

\* isPocketed[ i ] is true exactly when ball i has no handle, and the cue
\* ball is not flagged and has a handle
FlagsMatchHandles(t) ==
    /\ \A i \in BallIdx : t.isPocketed[i] <=> t.balls[i] = Null
    /\ ~t.isPocketed[0]
    /\ t.balls[0] # Null

\* C20: in every state in which the table is initialised (and no assert has
\* failed), isPocketed[ i ] is true exactly when ball i's handle is null and
\* the cue ball is neither flagged nor without a handle; and no update made
\* on an initialised table gives placeMesh a null handle.
C20_PocketedIffNoHandle ==
    [][/\ (~aborted /\ Initialised(table)) => FlagsMatchHandles(table)
       /\ (~aborted' /\ Initialised(table')) => FlagsMatchHandles(table')
       /\ (Initialised(table) /\ lastCall' = "update")
            => scene'.nullPlaced = scene.nullPlaced]_vars

\* balls roll on an initialised table from which a ball has been removed,
\* and placeMesh has never been given a null handle
C20_Witness ==
    /\ ~aborted
    /\ Initialised(table)
    /\ lastCall = "update"
    /\ isBallsMoving
    /\ ~scene.nullPlaced
    /\ \E i \in BallIdx : table.isPocketed[i] /\ table.balls[i] = Null
====
